---- MODULE Spec2Model ----
(***************************************************************************)
(* The Spark operator: pod inventory classification and per-bucket         *)
(* reconciliation (operator/src/lib.rs) and the cluster-state prober      *)
(* (operator/src/cluster_state.rs).                                       *)
(***************************************************************************)
EXTENDS Integers, Sequences, FiniteSets, TLC

VARIABLES
    pods,               \* the units in the cluster, in the order list_pods returns them
    spec,               \* SparkState.spec: the desired topology of the pass
    info_enabled,       \* whether the info! call site is enabled (arguments evaluated)
    pc,                 \* position of the reconcile future
    existing_pods,      \* read_existing_pod_information: the Vec still to pop
    master,             \* read_existing_pod_information: local map
    worker,             \* read_existing_pod_information: local map
    history_server,     \* read_existing_pod_information: local map
    node_information,   \* SparkState.node_information
    role_idx,           \* reconcile_cluster: which reconcile_node call is running
    todo,               \* reconcile_node: hashes of the role not yet iterated
    actions,            \* client create/delete requests of this pass, in order, with outcome
    processed,          \* (role, hash) buckets reconcile_node has handled in this pass
    result,             \* what the reconcile future returned
    observed,           \* Some(the list list_pods returned in this pass)
    passes,             \* passes that have returned
    failed,             \* some client call has failed in this run
    initial_pods,       \* the units before the first pass
    ever_converged,     \* some pass boundary so far had every bucket at its desired count
    master_urls,        \* get_running_applications: the endpoint list
    probe_pc,           \* position of the probe
    url_idx,            \* request_states: index of the url being handled
    master_states,      \* request_states: the Vec collected so far
    queried,            \* indices of the urls a GET was issued for
    probe_result,       \* what get_running_applications returned
    suspended,          \* Some(the state of a pass for another cluster resource, suspended)
    graceful            \* whether a deleted unit stays listed, marked, until it has terminated

reconcilerVars == <<pods, spec, info_enabled, pc, existing_pods, master, worker,
                    history_server, node_information, role_idx, todo, actions,
                    processed, result, observed, passes, failed, initial_pods,
                    ever_converged>>
proberVars == <<master_urls, probe_pc, url_idx, master_states, queried, probe_result>>
vars == <<reconcilerVars, proberVars, suspended, graceful>>

----------------------------------------------------------------------------
(* Bounds of the model *)
MaxPods == 2
MaxInstances == 2
MaxPasses == 1
MaxUrls == 2
MaxApps == 1
MaxTermPods == 2
MaxTermPasses == 2

----------------------------------------------------------------------------
(* Option values *)
None == [some |-> FALSE]
Some(v) == [some |-> TRUE, val |-> v]

Max(a, b) == IF a < b THEN b ELSE a
Abs(a) == IF a < 0 THEN 0 - a ELSE a

(* label keys *)
HASH == "spark.stackable.de/hash"
TYPE == "spark.stackable.de/type"

(* SparkNodeType and its fixed role strings *)
SparkNodeType == {"Master", "Worker", "HistoryServer"}

as_str(node_type) ==
    CASE node_type = "Master" -> "master"
      [] node_type = "Worker" -> "worker"
      [] node_type = "HistoryServer" -> "history-server"

to_string(node_type) == as_str(node_type)

from_str(s) ==
    IF \E nt \in SparkNodeType : as_str(nt) = s
    THEN [ok |-> TRUE, nt |-> CHOOSE nt \in SparkNodeType : as_str(nt) = s]
    ELSE [ok |-> FALSE]

(* BTreeMap / HashMap as functions with a finite domain *)
EmptyMap == [k \in {} |-> 0]
get(map, key) == IF key \in DOMAIN map THEN Some(map[key]) ELSE None
contains_key(map, key) == key \in DOMAIN map

(* SparkClusterSpec::get_hashed_selectors: role -> hash -> selector; the      *)
(* history server entry exists only when spec.history_server is configured. *)
get_hashed_selectors(s) ==
    ("Master" :> s.master) @@ ("Worker" :> s.worker) @@
    (IF s.history_server.some THEN ("HistoryServer" :> s.history_server.val) ELSE EmptyMap)

(* a variant that inserts both values under the TYPE key *)
build_labels_one_key(node_type, hash) ==
    (TYPE :> hash)

(* build_labels *)
build_labels(node_type, hash) ==
    (TYPE :> to_string(node_type)) @@ (HASH :> hash)

(* create_pod_name: the uuid suffix makes the name new *)
create_pod_name(used) == CHOOSE n \in 1..(Cardinality(used) + 1) : n \notin used

(* build_pod / build_pod_metadata *)
build_pod(node_type, hash, used) ==
    [name |-> create_pod_name(used), labels |-> Some(build_labels(node_type, hash))]

(* sort_pod_info *)
sort_pod_info(pod, hashed_pods, hash) ==
    IF contains_key(hashed_pods, hash)
    THEN [hashed_pods EXCEPT ![hash] = Append(@, pod)]
    ELSE hashed_pods @@ (hash :> <<pod>>)

(* the unit list without the pod *)
RemovePod(ps, pod) == SelectSeq(ps, LAMBDA p : p.name # pod.name)

(* finalizer::has_deletion_stamp: metadata.deletion_timestamp is set *)
has_deletion_stamp(pod) == "deletion_timestamp" \in DOMAIN pod

(* the unit list with the deletion timestamp set on the pod *)
MarkPod(ps, pod) ==
    [i \in DOMAIN ps |->
        IF ps[i].name = pod.name /\ ~has_deletion_stamp(ps[i])
        THEN ps[i] @@ ("deletion_timestamp" :> TRUE)
        ELSE ps[i]]

(* the cluster after a successful client.delete(pod): the unit is gone at  *)
(* once, or it stays listed with its deletion timestamp until terminated   *)
AfterDelete(ps, pod) == IF graceful THEN MarkPod(ps, pod) ELSE RemovePod(ps, pod)

(* the cluster after a successful client.create(pod): the new unit is      *)
(* listed last (the initial lists cover every order of the listed units);  *)
(* the runs with slow deletion list it at any place                        *)
InsertPod(ps, pod, at) ==
    SubSeq(ps, 1, at - 1) \o <<pod>> \o SubSeq(ps, at, Len(ps))

CreatePositions(ps) == IF graceful THEN 1..(Len(ps) + 1) ELSE {Len(ps) + 1}

Names(ps) == {ps[i].name : i \in DOMAIN ps}

----------------------------------------------------------------------------
(* Inputs of the model *)
Hashes == {"h1", "h2"}

(* label maps a listed unit may carry *)
LabelChoices ==
    { None, Some(TYPE :> "master"), Some((TYPE :> "bogus") @@ (HASH :> "h1")) }
    \cup { Some(build_labels("Master", h)) : h \in Hashes }
    \cup { Some(build_labels("HistoryServer", "h1")) }

PodLists ==
    UNION { { [i \in 1..n |-> [name |-> i, labels |-> f[i]]] : f \in [1..n -> LabelChoices] }
            : n \in 0..MaxPods }

(* hash -> instances of a role *)
MasterChoices ==
    { ("h1" :> n) : n \in 0..MaxInstances }
    \cup { ("h1" :> n) @@ ("h2" :> 1) : n \in 0..MaxInstances }
WorkerChoices == { ("h1" :> 1) }
HistoryServerChoices == { None, Some("h1" :> 1) }

SpecChoices ==
    { [master |-> m, worker |-> w, history_server |-> hs] :
        m \in MasterChoices, w \in WorkerChoices, hs \in HistoryServerChoices }

----------------------------------------------------------------------------
(* Observed count of a bucket and the fixed point *)
HasLabels(pod, node_type, hash) ==
    /\ pod.labels.some
    /\ get(pod.labels.val, TYPE) = Some(as_str(node_type))
    /\ get(pod.labels.val, HASH) = Some(hash)

Count(ps, node_type, hash) ==
    Cardinality({ i \in DOMAIN ps : HasLabels(ps[i], node_type, hash) })

Buckets(s) ==
    UNION { { <<nt, h>> : h \in DOMAIN get_hashed_selectors(s)[nt] }
            : nt \in DOMAIN get_hashed_selectors(s) }

Desired(s, b) == get_hashed_selectors(s)[b[1]][b[2]]

Converged(ps, s) == \A b \in Buckets(s) : Count(ps, b[1], b[2]) = Desired(s, b)

----------------------------------------------------------------------------
(* read_existing_pod_information *)

(* a variant with the hash check inverted *)
classify_hash_check_inverted(pod, hashed_selectors) ==
    IF pod.labels.some
    THEN LET labels == pod.labels.val
             hash == get(labels, HASH)
             node_type == get(labels, TYPE)
         IN IF hash.some /\ node_type.some
            THEN LET parsed == from_str(node_type.val)
                 IN IF ~parsed.ok
                    THEN "delete"
                    ELSE LET hashed == get(hashed_selectors, parsed.nt)
                         IN IF hashed.some /\ contains_key(hashed.val, hash.val)
                            THEN "delete"
                            ELSE parsed.nt
            ELSE "delete"
    ELSE "skip"

(* what the loop body does with one popped pod: "skip" (no labels at all),  *)
(* "delete" (and break), or the role whose map the pod is sorted into       *)
classify(pod, hashed_selectors) ==
    IF pod.labels.some
    THEN LET labels == pod.labels.val
             hash == get(labels, HASH)
             node_type == get(labels, TYPE)
         IN IF hash.some /\ node_type.some
            THEN LET parsed == from_str(node_type.val)
                 IN IF ~parsed.ok
                    THEN "delete"
                    ELSE LET hashed == get(hashed_selectors, parsed.nt)
                         IN IF hashed.some /\ ~contains_key(hashed.val, hash.val)
                            THEN "delete"
                            ELSE parsed.nt
            ELSE "delete"
    ELSE "skip"

Last(s) == s[Len(s)]
Front(s) == SubSeq(s, 1, Len(s) - 1)

Init ==
    /\ pods \in PodLists
    /\ spec \in SpecChoices
    /\ info_enabled \in (IF spec.history_server.some THEN {TRUE} ELSE BOOLEAN)
    /\ pc = "start"
    /\ existing_pods = <<>>
    /\ master = EmptyMap
    /\ worker = EmptyMap
    /\ history_server = EmptyMap
    /\ node_information = None
    /\ role_idx = 0
    /\ todo = {}
    /\ actions = <<>>
    /\ processed = {}
    /\ result = "None"
    /\ observed = None
    /\ passes = 0
    /\ failed = FALSE
    /\ initial_pods = pods
    /\ ever_converged = Converged(pods, spec)
    /\ master_urls = <<>>
    /\ probe_pc = "off"
    /\ url_idx = 0
    /\ master_states = <<>>
    /\ queried = <<>>
    /\ probe_result = None
    /\ suspended = None
    /\ graceful = FALSE

(* self.context.list_pods().await? *)
ListPods ==
    /\ pc = "start"
    /\ \E ok \in BOOLEAN :
        IF ok
        THEN /\ existing_pods' = pods
             /\ observed' = Some(pods)
             /\ pc' = "classify"
             /\ UNCHANGED <<result, failed>>
        ELSE /\ result' = "Err"
             /\ failed' = TRUE
             /\ pc' = "done"
             /\ UNCHANGED <<existing_pods, observed>>
    /\ UNCHANGED <<pods, spec, info_enabled, master, worker, history_server,
                   node_information, role_idx, todo, actions, processed, passes,
                   initial_pods, ever_converged>>
    /\ UNCHANGED <<proberVars, suspended, graceful>>

(* one iteration of the while-let loop that keeps the pod *)
ClassifyKeep ==
    /\ pc = "classify"
    /\ existing_pods # <<>>
    /\ LET pod == Last(existing_pods)
           verdict == classify(pod, get_hashed_selectors(spec))
           hash == IF verdict \in SparkNodeType THEN pod.labels.val[HASH] ELSE "none"
       IN /\ verdict # "delete"
          /\ existing_pods' = Front(existing_pods)
          /\ master' = IF verdict = "Master"
                       THEN sort_pod_info(pod, master, hash) ELSE master
          /\ worker' = IF verdict = "Worker"
                       THEN sort_pod_info(pod, worker, hash) ELSE worker
          /\ history_server' = IF verdict = "HistoryServer"
                               THEN sort_pod_info(pod, history_server, hash)
                               ELSE history_server
    /\ UNCHANGED <<pods, spec, info_enabled, pc, node_information, role_idx, todo,
                   actions, processed, result, observed, passes, failed,
                   initial_pods, ever_converged>>
    /\ UNCHANGED <<proberVars, suspended, graceful>>

(* a variant that also sorts the deleted pod into the master map *)
ClassifyDelete_sorted ==
    /\ pc = "classify"
    /\ existing_pods # <<>>
    /\ LET pod == Last(existing_pods)
       IN /\ classify(pod, get_hashed_selectors(spec)) = "delete"
          /\ existing_pods' = Front(existing_pods)
          /\ master' = sort_pod_info(pod, master, "h1")
          /\ \E ok \in BOOLEAN :
                /\ actions' = Append(actions, [op |-> "delete", by |-> "classify",
                                               name |-> pod.name, ok |-> ok])
                /\ IF ok
                   THEN /\ pods' = AfterDelete(pods, pod)
                        /\ pc' = "classified"
                        /\ UNCHANGED <<result, failed>>
                   ELSE /\ result' = "Err"
                        /\ failed' = TRUE
                        /\ pc' = "done"
                        /\ UNCHANGED pods
    /\ UNCHANGED <<spec, info_enabled, worker, history_server,
                   node_information, role_idx, todo, processed, observed, passes,
                   initial_pods, ever_converged>>
    /\ UNCHANGED <<proberVars, suspended, graceful>>

(* a variant that drops the error of the delete call *)
ClassifyDelete_ignore_error ==
    /\ pc = "classify"
    /\ existing_pods # <<>>
    /\ LET pod == Last(existing_pods)
       IN /\ classify(pod, get_hashed_selectors(spec)) = "delete"
          /\ existing_pods' = Front(existing_pods)
          /\ master' = master
          /\ \E ok \in BOOLEAN :
                /\ actions' = Append(actions, [op |-> "delete", by |-> "classify",
                                               name |-> pod.name, ok |-> ok])
                /\ IF ok
                   THEN /\ pods' = AfterDelete(pods, pod)
                        /\ pc' = "classified"
                        /\ UNCHANGED <<result, failed>>
                   ELSE /\ failed' = TRUE
                        /\ pc' = "classified"
                        /\ UNCHANGED <<pods, result>>
    /\ UNCHANGED <<spec, info_enabled, worker, history_server,
                   node_information, role_idx, todo, processed, observed, passes,
                   initial_pods, ever_converged>>
    /\ UNCHANGED <<proberVars, suspended, graceful>>

(* one iteration that deletes the pod: client.delete(&pod).await? ; break *)
ClassifyDelete ==
    /\ pc = "classify"
    /\ existing_pods # <<>>
    /\ LET pod == Last(existing_pods)
       IN /\ classify(pod, get_hashed_selectors(spec)) = "delete"
          /\ existing_pods' = Front(existing_pods)
          /\ \E ok \in BOOLEAN :
                /\ actions' = Append(actions, [op |-> "delete", by |-> "classify",
                                               name |-> pod.name, ok |-> ok])
                /\ IF ok
                   THEN /\ pods' = AfterDelete(pods, pod)
                        /\ pc' = "classified"
                        /\ UNCHANGED <<result, failed>>
                   ELSE /\ result' = "Err"
                        /\ failed' = TRUE
                        /\ pc' = "done"
                        /\ UNCHANGED pods
    /\ UNCHANGED <<spec, info_enabled, master, worker, history_server,
                   node_information, role_idx, todo, processed, observed, passes,
                   initial_pods, ever_converged>>
    /\ UNCHANGED <<proberVars, suspended, graceful>>

(* a variant that reconciles the workers first *)
RoleOrder_worker_first == <<"Worker", "Master", "HistoryServer">>

(* the order of the reconcile_node calls in reconcile_cluster *)
RoleOrder == <<"Master", "Worker", "HistoryServer">>

(* hashes reconcile_node iterates for a role: none when the role has no entry *)
HashesOf(s, node_type) ==
    LET hashed_pods == get(get_hashed_selectors(s), node_type)
    IN IF hashed_pods.some THEN DOMAIN hashed_pods.val ELSE {}

(* reconcile_cluster: the next reconcile_node call, after the call for      *)
(* RoleOrder[idx], whose for loop has a hash to iterate; 0 when every       *)
(* remaining call returns Continue at once and reconcile_cluster returns    *)
NextRole(s, idx) ==
    LET later == { j \in (idx + 1)..Len(RoleOrder) : HashesOf(s, RoleOrder[j]) # {} }
    IN IF later = {} THEN 0 ELSE CHOOSE j \in later : \A k \in later : j <= k

(* after the loop: node_information is set and the status line is logged;   *)
(* the info! arguments unwrap spec.history_server when they are evaluated.  *)
(* Then reconcile() chains into reconcile_cluster, which starts with Master *)
SetNodeInformation ==
    /\ \/ pc = "classified"
       \/ pc = "classify" /\ existing_pods = <<>>
    /\ node_information' = Some([master |-> master, worker |-> worker,
                                 history_server |-> Some(history_server)])
    /\ IF info_enabled /\ ~spec.history_server.some
       THEN /\ result' = "Panic"
            /\ pc' = "done"
            /\ UNCHANGED <<role_idx, todo>>
       ELSE LET next == NextRole(spec, 0)
            IN IF next = 0
               THEN /\ result' = "Continue"
                    /\ pc' = "done"
                    /\ UNCHANGED <<role_idx, todo>>
               ELSE /\ pc' = "reconcile"
                    /\ role_idx' = next
                    /\ todo' = HashesOf(spec, RoleOrder[next])
                    /\ UNCHANGED result
    /\ UNCHANGED <<pods, spec, info_enabled, existing_pods, master, worker,
                   history_server, actions, processed, observed, passes, failed,
                   initial_pods, ever_converged>>
    /\ UNCHANGED <<proberVars, suspended, graceful>>

----------------------------------------------------------------------------
(* reconcile_cluster / reconcile_node *)

(* the map reconcile_cluster hands to reconcile_node for a role *)
NodesOf(node_info, node_type) ==
    CASE node_type = "Master" -> node_info.master
      [] node_type = "Worker" -> node_info.worker
      [] node_type = "HistoryServer" -> node_info.history_server.val

(* variants of the loop body with a slip in one comparison or count *)
reconcile_bucket_delete_at_equal(nodes, hashed_pods, hash) ==
    LET spec_pod_count == hashed_pods[hash]
        found == get(nodes, hash)
        current_count == IF found.some THEN Len(found.val) ELSE 0
    IN [delete |-> IF found.some /\ current_count >= spec_pod_count
                   THEN Some(found.val[1]) ELSE None,
        create |-> current_count < spec_pod_count]

reconcile_bucket_create_at_equal(nodes, hashed_pods, hash) ==
    LET spec_pod_count == hashed_pods[hash]
        found == get(nodes, hash)
        current_count == IF found.some THEN Len(found.val) ELSE 0
    IN [delete |-> IF found.some /\ current_count > spec_pod_count
                   THEN Some(found.val[1]) ELSE None,
        create |-> current_count <= spec_pod_count]

RECURSIVE SumInstances(_, _)
SumInstances(hashed_pods, keys) ==
    IF keys = {}
    THEN 0
    ELSE LET k == CHOOSE k \in keys : TRUE
         IN hashed_pods[k] + SumInstances(hashed_pods, keys \ {k})

reconcile_bucket_role_instances(nodes, hashed_pods, hash) ==
    LET spec_pod_count == SumInstances(hashed_pods, DOMAIN hashed_pods)
        found == get(nodes, hash)
        current_count == IF found.some THEN Len(found.val) ELSE 0
    IN [delete |-> IF found.some /\ current_count > spec_pod_count
                   THEN Some(found.val[1]) ELSE None,
        create |-> current_count < spec_pod_count]

(* the body of the for loop of reconcile_node for one (hash, selector):     *)
(* which pod to delete, if any, and whether to create one                   *)
reconcile_bucket(nodes, hashed_pods, hash) ==
    LET spec_pod_count == hashed_pods[hash]
        found == get(nodes, hash)
        current_count == IF found.some THEN Len(found.val) ELSE 0
    IN [delete |-> IF found.some /\ current_count > spec_pod_count
                   THEN Some(found.val[1]) ELSE None,
        create |-> current_count < spec_pod_count]

ReconcileBucket ==
    /\ pc = "reconcile"
    /\ \E hash \in todo, ok_delete \in BOOLEAN, ok_create \in BOOLEAN,
          at \in CreatePositions(pods) :
        LET node_type == RoleOrder[role_idx]
            d == reconcile_bucket(NodesOf(node_information.val, node_type),
                                  get_hashed_selectors(spec)[node_type], hash)
            do_create == d.create /\ (d.delete.some => ok_delete)
            after_delete == IF d.delete.some /\ ok_delete
                            THEN AfterDelete(pods, d.delete.val) ELSE pods
            pod == build_pod(node_type, hash, Names(pods) \cup Names(observed.val))
            a_delete == IF d.delete.some
                        THEN <<[op |-> "delete", by |-> "reconcile",
                                name |-> d.delete.val.name, ok |-> ok_delete,
                                node_type |-> node_type, hash |-> hash]>>
                        ELSE <<>>
            a_create == IF do_create
                        THEN <<[op |-> "create", by |-> "reconcile",
                                name |-> pod.name, ok |-> ok_create,
                                node_type |-> node_type, hash |-> hash]>>
                        ELSE <<>>
            err == (d.delete.some /\ ~ok_delete) \/ (do_create /\ ~ok_create)
        IN /\ d.delete.some \/ ok_delete
           /\ do_create \/ ok_create
           /\ (do_create /\ ok_create) \/ at = Len(pods) + 1
           /\ actions' = actions \o a_delete \o a_create
           /\ pods' = IF do_create /\ ok_create
                      THEN InsertPod(after_delete, pod, at) ELSE after_delete
           /\ processed' = processed \cup {<<node_type, hash>>}
           /\ IF err
              THEN /\ result' = "Err"
                   /\ failed' = TRUE
                   /\ pc' = "done"
                   /\ UNCHANGED todo
                   /\ UNCHANGED role_idx
              ELSE /\ UNCHANGED failed
                   /\ IF todo \ {hash} # {}
                      THEN /\ todo' = todo \ {hash}
                           /\ UNCHANGED <<result, pc, role_idx>>
                      ELSE LET next == NextRole(spec, role_idx)
                           IN IF next = 0
                              THEN /\ result' = "Continue"
                                   /\ pc' = "done"
                                   /\ todo' = {}
                                   /\ UNCHANGED role_idx
                              ELSE /\ role_idx' = next
                                   /\ todo' = HashesOf(spec, RoleOrder[next])
                                   /\ UNCHANGED <<result, pc>>
    /\ UNCHANGED <<spec, info_enabled, existing_pods, master, worker,
                   history_server, node_information, observed, passes,
                   initial_pods, ever_converged>>
    /\ UNCHANGED <<proberVars, suspended, graceful>>

(* a variant in which the master map outlives the pass *)
init_reconcile_state_keep_master ==
    /\ pc = "done"
    /\ result # "Err"
    /\ result # "Panic" => passes < (IF graceful THEN MaxTermPasses ELSE MaxPasses)
    /\ pc' = "start"
    /\ node_information' = None
    /\ existing_pods' = <<>>
    /\ worker' = EmptyMap
    /\ history_server' = EmptyMap
    /\ role_idx' = 0
    /\ todo' = {}
    /\ actions' = <<>>
    /\ processed' = {}
    /\ observed' = None
    /\ result' = "None"
    /\ passes' = IF result # "Panic" THEN passes + 1 ELSE passes
    /\ ever_converged' = (ever_converged \/ Converged(pods, spec))
    /\ UNCHANGED <<pods, spec, info_enabled, failed, initial_pods, master>>
    /\ UNCHANGED <<proberVars, suspended, graceful>>

(* init_reconcile_state: the controller starts the next pass with a fresh   *)
(* SparkState. The explored runs end after MaxPasses returned passes or     *)
(* with the first pass that returns an error.                               *)
init_reconcile_state ==
    /\ pc = "done"
    /\ result # "Err"
    /\ result # "Panic" => passes < (IF graceful THEN MaxTermPasses ELSE MaxPasses)
    /\ pc' = "start"
    /\ node_information' = None
    /\ existing_pods' = <<>>
    /\ master' = EmptyMap
    /\ worker' = EmptyMap
    /\ history_server' = EmptyMap
    /\ role_idx' = 0
    /\ todo' = {}
    /\ actions' = <<>>
    /\ processed' = {}
    /\ observed' = None
    /\ result' = "None"
    /\ passes' = IF result # "Panic" THEN passes + 1 ELSE passes
    /\ ever_converged' = (ever_converged \/ Converged(pods, spec))
    /\ UNCHANGED <<pods, spec, info_enabled, failed, initial_pods>>
    /\ UNCHANGED <<proberVars, suspended, graceful>>

----------------------------------------------------------------------------
(* cluster_state.rs: the prober *)

SparkApplicationState == {"FAILED", "FINISHED", "RUNNING", "WAITING"}

(* state strings a payload may carry: the four variants and a foreign one *)
StateStrings == SparkApplicationState \cup {"KILLED"}

(* application records of a payload; the id is the record's position *)
AppLists ==
    UNION { { [i \in 1..n |-> [id |-> i, state |-> f[i]]] : f \in [1..n -> StateStrings] }
            : n \in 0..MaxApps }

(* response bodies: complete says that every required field is present *)
Bodies ==
    { [complete |-> TRUE, activeapps |-> a, completedapps |-> <<>>] : a \in AppLists }
    \cup { [complete |-> TRUE, activeapps |-> a,
            completedapps |-> <<[id |-> 9, state |-> "RUNNING"]>>] :
            a \in { l \in AppLists : Len(l) <= 1 } }
    \cup { [complete |-> FALSE, activeapps |-> <<[id |-> 1, state |-> "RUNNING"]>>,
            completedapps |-> <<>>] }
    \cup { [complete |-> TRUE,
            activeapps |-> <<[id |-> 1, state |-> "RUNNING"], [id |-> 2, state |-> s]>>,
            completedapps |-> <<>>] : s \in {"RUNNING", "KILLED"} }

(* what a url answers: whether the GET connects, whether the body can be    *)
(* read, and the body                                                       *)
NoBody == [complete |-> FALSE, activeapps |-> <<>>, completedapps |-> <<>>]
UrlChoices ==
    { [conn |-> FALSE, read |-> FALSE, body |-> NoBody],
      [conn |-> TRUE, read |-> FALSE, body |-> NoBody] }
    \cup { [conn |-> TRUE, read |-> TRUE, body |-> b] : b \in Bodies }

UrlLists == UNION { [1..n -> UrlChoices] : n \in 0..MaxUrls }

(* a variant that drops the records it cannot parse and keeps the rest *)
from_slice_lenient(body) ==
    IF body.complete
    THEN [ok |-> TRUE,
          state |-> [active_apps |->
                        SelectSeq(body.activeapps,
                                  LAMBDA a : a.state \in SparkApplicationState),
                     completed_apps |->
                        SelectSeq(body.completedapps,
                                  LAMBDA a : a.state \in SparkApplicationState)]]
    ELSE [ok |-> FALSE]

(* serde_json::from_slice into SparkMasterState *)
from_slice(body) ==
    IF /\ body.complete
       /\ \A i \in DOMAIN body.activeapps :
            body.activeapps[i].state \in SparkApplicationState
       /\ \A i \in DOMAIN body.completedapps :
            body.completedapps[i].state \in SparkApplicationState
    THEN [ok |-> TRUE,
          state |-> [active_apps |-> body.activeapps,
                     completed_apps |-> body.completedapps]]
    ELSE [ok |-> FALSE]

(* a variant of the filter that also keeps waiting applications *)
is_running_or_waiting(app) == app.state \in {"RUNNING", "WAITING"}

(* the filter of the inner loop of get_running_applications *)
is_running(app) == app.state = "RUNNING"

(* a variant that puts the applications of a later state first *)
RECURSIVE collect_running_later_first(_)
collect_running_later_first(states) ==
    IF states = <<>>
    THEN <<>>
    ELSE LET state == Head(states)
         IN collect_running_later_first(Tail(states)) \o
            (IF state.active_apps # <<>>
             THEN SelectSeq(state.active_apps, is_running)
             ELSE <<>>)

(* the two nested loops of get_running_applications over the master states *)
RECURSIVE collect_running(_)
collect_running(states) ==
    IF states = <<>>
    THEN <<>>
    ELSE LET state == Head(states)
         IN (IF state.active_apps # <<>>
             THEN SelectSeq(state.active_apps, is_running)
             ELSE <<>>) \o collect_running(Tail(states))

ProbeInit ==
    /\ pods = <<>>
    /\ spec = [master |-> ("h1" :> 1), worker |-> ("h1" :> 1), history_server |-> None]
    /\ info_enabled = FALSE
    /\ pc = "off"
    /\ existing_pods = <<>>
    /\ master = EmptyMap
    /\ worker = EmptyMap
    /\ history_server = EmptyMap
    /\ node_information = None
    /\ role_idx = 0
    /\ todo = {}
    /\ actions = <<>>
    /\ processed = {}
    /\ result = "None"
    /\ observed = None
    /\ passes = 0
    /\ failed = FALSE
    /\ initial_pods = <<>>
    /\ ever_converged = FALSE
    /\ master_urls \in UrlLists
    /\ probe_pc = "get"
    /\ url_idx = 1
    /\ master_states = <<>>
    /\ queried = <<>>
    /\ probe_result = None
    /\ suspended = None
    /\ graceful = FALSE

(* a variant of the GET step that returns the connection error *)
RequestGet_abort ==
    /\ probe_pc = "get"
    /\ url_idx <= Len(master_urls)
    /\ queried' = Append(queried, url_idx)
    /\ IF master_urls[url_idx].conn
       THEN /\ probe_pc' = "text"
            /\ UNCHANGED probe_result
       ELSE /\ probe_pc' = "done"
            /\ probe_result' = Some([ok |-> FALSE])
    /\ UNCHANGED <<master_urls, url_idx, master_states>>
    /\ UNCHANGED <<reconcilerVars, suspended, graceful>>

(* request_states: reqwest::get(url).await *)
RequestGet ==
    /\ probe_pc = "get"
    /\ url_idx <= Len(master_urls)
    /\ queried' = Append(queried, url_idx)
    /\ IF master_urls[url_idx].conn
       THEN /\ probe_pc' = "text"
            /\ UNCHANGED url_idx
       ELSE /\ url_idx' = url_idx + 1
            /\ UNCHANGED probe_pc
    /\ UNCHANGED <<master_urls, master_states, probe_result>>
    /\ UNCHANGED <<reconcilerVars, suspended, graceful>>

(* request_states: response.text().await, then the parse and the push *)
RequestText ==
    /\ probe_pc = "text"
    /\ LET url == master_urls[url_idx]
           parsed == from_slice(url.body)
       IN master_states' = IF url.read /\ parsed.ok
                           THEN Append(master_states, parsed.state)
                           ELSE master_states
    /\ url_idx' = url_idx + 1
    /\ probe_pc' = "get"
    /\ UNCHANGED <<master_urls, queried, probe_result>>
    /\ UNCHANGED <<reconcilerVars, suspended, graceful>>

(* request_states returns Ok(master_states); get_running_applications       *)
(* collects the running applications and returns them                      *)
GetRunningApplications ==
    /\ probe_pc = "get"
    /\ url_idx > Len(master_urls)
    /\ LET states == [ok |-> TRUE, val |-> master_states]
       IN probe_result' = IF states.ok
                          THEN Some([ok |-> TRUE, val |-> collect_running(states.val)])
                          ELSE Some([ok |-> FALSE])
    /\ probe_pc' = "done"
    /\ UNCHANGED <<master_urls, url_idx, master_states, queried>>
    /\ UNCHANGED <<reconcilerVars, suspended, graceful>>

ProbeNext ==
    \/ RequestGet
    \/ RequestText
    \/ GetRunningApplications

ProbeSpec == ProbeInit /\ [][ProbeNext]_vars

Next ==
    \/ ListPods
    \/ ClassifyKeep
    \/ ClassifyDelete
    \/ SetNodeInformation
    \/ ReconcileBucket
    \/ init_reconcile_state

Spec == Init /\ [][Next]_vars

FairSpec == Spec /\ WF_vars(Next)

----------------------------------------------------------------------------
(* Two cluster resources: the controller runs a pass for each, every pass   *)
(* on its own SparkState and its own units; the futures interleave.         *)

(* the SparkState, the locals and the units of the running pass *)
CurrentPass ==
    [pods |-> pods, spec |-> spec, pc |-> pc, existing_pods |-> existing_pods,
     master |-> master, worker |-> worker, history_server |-> history_server,
     node_information |-> node_information, role_idx |-> role_idx, todo |-> todo,
     actions |-> actions, processed |-> processed, result |-> result,
     observed |-> observed, passes |-> passes, failed |-> failed,
     initial_pods |-> initial_pods, ever_converged |-> ever_converged]

(* a pass not yet started on units p with desired topology s *)
NewPass(p, s) ==
    [pods |-> p, spec |-> s, pc |-> "start", existing_pods |-> <<>>,
     master |-> EmptyMap, worker |-> EmptyMap, history_server |-> EmptyMap,
     node_information |-> None, role_idx |-> 0, todo |-> {},
     actions |-> <<>>, processed |-> {}, result |-> "None",
     observed |-> None, passes |-> 0, failed |-> FALSE,
     initial_pods |-> p, ever_converged |-> Converged(p, s)]

(* the executor leaves the running future and polls o, whose SparkState     *)
(* holds the inventory ni                                                   *)
SwitchTo(o, ni) ==
    /\ suspended' = Some(CurrentPass)
    /\ pods' = o.pods
    /\ spec' = o.spec
    /\ pc' = o.pc
    /\ existing_pods' = o.existing_pods
    /\ master' = o.master
    /\ worker' = o.worker
    /\ history_server' = o.history_server
    /\ node_information' = ni
    /\ role_idx' = o.role_idx
    /\ todo' = o.todo
    /\ actions' = o.actions
    /\ processed' = o.processed
    /\ result' = o.result
    /\ observed' = o.observed
    /\ passes' = o.passes
    /\ failed' = o.failed
    /\ initial_pods' = o.initial_pods
    /\ ever_converged' = o.ever_converged
    /\ UNCHANGED <<info_enabled, proberVars, graceful>>

(* a variant in which the inventory is kept in one place for all resources *)
Switch_shared_inventory ==
    /\ suspended.some
    /\ SwitchTo(suspended.val, node_information)

(* the other resource's future is polled; every step of the model ends at   *)
(* an await or at the end of a pass, and the switch is allowed after each   *)
Switch ==
    /\ suspended.some
    /\ SwitchTo(suspended.val, suspended.val.node_information)

(* unit lists and topologies of the two resources *)
PairPodsA ==
    { <<>>,
      <<[name |-> 1, labels |-> Some(build_labels("Master", "h1"))],
        [name |-> 2, labels |-> Some(TYPE :> "master")]>>,
      <<[name |-> 1, labels |-> Some(build_labels("Master", "h1"))],
        [name |-> 2, labels |-> Some(build_labels("Master", "h1"))]>> }

PairSpecA == [master |-> ("h1" :> 1), worker |-> ("h1" :> 1), history_server |-> None]

PairPodsB ==
    <<[name |-> 11, labels |-> Some((TYPE :> "bogus") @@ (HASH :> "h1"))],
      [name |-> 12, labels |-> Some(build_labels("Master", "h1"))]>>

PairSpecB ==
    [master |-> ("h1" :> 0) @@ ("h2" :> 1), worker |-> ("h1" :> 1),
     history_server |-> Some("h1" :> 1)]

PairInit ==
    /\ pods \in PairPodsA
    /\ spec = PairSpecA
    /\ info_enabled \in BOOLEAN
    /\ pc = "start"
    /\ existing_pods = <<>>
    /\ master = EmptyMap
    /\ worker = EmptyMap
    /\ history_server = EmptyMap
    /\ node_information = None
    /\ role_idx = 0
    /\ todo = {}
    /\ actions = <<>>
    /\ processed = {}
    /\ result = "None"
    /\ observed = None
    /\ passes = 0
    /\ failed = FALSE
    /\ initial_pods = pods
    /\ ever_converged = Converged(pods, spec)
    /\ master_urls = <<>>
    /\ probe_pc = "off"
    /\ url_idx = 0
    /\ master_states = <<>>
    /\ queried = <<>>
    /\ probe_result = None
    /\ suspended = Some(NewPass(PairPodsB, PairSpecB))
    /\ graceful = FALSE

PairNext ==
    \/ Next
    \/ Switch

PairSpec == PairInit /\ [][PairNext]_vars

----------------------------------------------------------------------------
(* Slow deletion: a deleted unit keeps being listed, with its deletion      *)
(* timestamp, until the cluster has terminated it.                          *)

TermLabelChoices == { Some(build_labels("Master", "h1")), Some(TYPE :> "master") }

TermPodLists ==
    UNION { { [i \in 1..n |-> [name |-> i, labels |-> f[i]]] : f \in [1..n -> TermLabelChoices] }
            : n \in 0..MaxTermPods }

TermSpecChoices ==
    { [master |-> ("h1" :> n), worker |-> ("h1" :> 0), history_server |-> None] :
        n \in 0..MaxInstances }

TermInit ==
    /\ pods \in TermPodLists
    /\ spec \in TermSpecChoices
    /\ info_enabled = FALSE
    /\ pc = "start"
    /\ existing_pods = <<>>
    /\ master = EmptyMap
    /\ worker = EmptyMap
    /\ history_server = EmptyMap
    /\ node_information = None
    /\ role_idx = 0
    /\ todo = {}
    /\ actions = <<>>
    /\ processed = {}
    /\ result = "None"
    /\ observed = None
    /\ passes = 0
    /\ failed = FALSE
    /\ initial_pods = pods
    /\ ever_converged = Converged(pods, spec)
    /\ master_urls = <<>>
    /\ probe_pc = "off"
    /\ url_idx = 0
    /\ master_states = <<>>
    /\ queried = <<>>
    /\ probe_result = None
    /\ suspended = None
    /\ graceful = TRUE

(* the cluster finishes the termination of a unit: it is no longer listed *)
Terminate ==
    /\ graceful
    /\ \E i \in DOMAIN pods :
          /\ has_deletion_stamp(pods[i])
          /\ pods' = RemovePod(pods, pods[i])
    /\ UNCHANGED <<spec, info_enabled, pc, existing_pods, master, worker,
                   history_server, node_information, role_idx, todo, actions,
                   processed, result, observed, passes, failed, initial_pods,
                   ever_converged>>
    /\ UNCHANGED <<proberVars, suspended, graceful>>

TermNext ==
    \/ Next
    \/ Terminate

TermSpec == TermInit /\ [][TermNext]_vars

----------------------------------------------------------------------------
(* Vocabulary of the properties *)

(* a unit that passes validation: both labels, a known role, a hash of D *)
ValidlyLabelled(pod, s) == \E b \in Buckets(s) : HasLabels(pod, b[1], b[2])

AllRoleHashes == SparkNodeType \X Hashes

(* size of a bucket of the classified inventory, 0 when absent *)
InventoryCount(b) ==
    LET found == get(NodesOf(node_information.val, b[1]), b[2])
    IN IF found.some THEN Len(found.val) ELSE 0

InventoryNames(b) ==
    LET found == get(NodesOf(node_information.val, b[1]), b[2])
    IN IF found.some THEN Names(found.val) ELSE {}

(* positions of the action log holding a request of the reconciler for b *)
ReconcileActions(op, b) ==
    { i \in DOMAIN actions :
        /\ actions[i].by = "reconcile"
        /\ actions[i].op = op
        /\ actions[i].node_type = b[1]
        /\ actions[i].hash = b[2] }

ClassifyDeletes == { actions[i].name : i \in { j \in DOMAIN actions : actions[j].by = "classify" } }

(* max over the buckets of D of |observed - desired| for a unit list *)
RECURSIVE MaxDiff(_, _, _)
MaxDiff(ps, s, bs) ==
    IF bs = {}
    THEN 0
    ELSE LET b == CHOOSE b \in bs : TRUE
         IN Max(Abs(Count(ps, b[1], b[2]) - Desired(s, b)), MaxDiff(ps, s, bs \ {b}))

----------------------------------------------------------------------------
(* C1: with every client call succeeding, repeated passes eventually reach  *)
(* and then stay in a state where every bucket of D holds its desired       *)
(* number of units.                                                         *)
C1_EventualConvergence == ([]~failed) => <>[]Converged(pods, spec)

(* C2: with every client call succeeding, once as many passes have          *)
(* completed as the largest initial |observed - desired| over the buckets   *)
(* of D, some pass boundary up to then had every bucket at its desired      *)
(* count.                                                                   *)
C2_ConvergenceBound ==
    (pc = "start" /\ ~failed /\ passes >= MaxDiff(initial_pods, spec, Buckets(spec)))
        => ever_converged

(* C3: in a pass that lists only validly labelled units with every bucket   *)
(* of D at its desired count, no create or delete is issued and the unit    *)
(* set stays as listed, so the same holds for the next pass.                *)
C3_IdempotentAtFixedPoint ==
    ( /\ observed.some
      /\ \A i \in DOMAIN observed.val : ValidlyLabelled(observed.val[i], spec)
      /\ Converged(observed.val, spec) )
        => (actions = <<>> /\ pods = observed.val)

C3_Witness ==
    /\ pc = "done"
    /\ result = "Continue"
    /\ passes >= 1
    /\ observed.val # <<>>
    /\ \A i \in DOMAIN observed.val : ValidlyLabelled(observed.val[i], spec)
    /\ Converged(observed.val, spec)

(* C4: at the end of a pass, every listed unit that fails validation has    *)
(* had a delete requested for it in that pass.                              *)
C4_CorruptUnitRemoval ==
    (pc = "done" /\ result = "Continue")
        => \A i \in DOMAIN observed.val :
              ~ValidlyLabelled(observed.val[i], spec)
                  => \E j \in DOMAIN actions :
                        actions[j].op = "delete" /\ actions[j].name = observed.val[i].name

(* C5: every unit of ClassifiedInventory[role][hash] carries that role and  *)
(* hash label, and (role, hash) is a key of D.                              *)
C5_InventoryInvariant ==
    node_information.some
        => \A nt \in SparkNodeType :
             \A h \in DOMAIN NodesOf(node_information.val, nt) :
               /\ <<nt, h>> \in Buckets(spec)
               /\ \A i \in DOMAIN NodesOf(node_information.val, nt)[h] :
                    HasLabels(NodesOf(node_information.val, nt)[h][i], nt, h)

(* C6: for every bucket of D the reconciler has handled, with n the bucket  *)
(* size in the inventory and d the desired count: n < d gives exactly one   *)
(* create and no delete, n > d exactly one delete of a unit of the bucket   *)
(* and no create, n = d no action; a bucket not handled has no action; a    *)
(* pass that returns Continue has handled every bucket of D.                *)
C6_PerBucketDecision ==
    node_information.some
        => /\ \A b \in processed :
                LET n == InventoryCount(b)
                    d == Desired(spec, b)
                    creates == ReconcileActions("create", b)
                    deletes == ReconcileActions("delete", b)
                IN /\ b \in Buckets(spec)
                   /\ n < d => (Cardinality(creates) = 1 /\ deletes = {})
                   /\ n > d => /\ Cardinality(deletes) = 1
                               /\ creates = {}
                               /\ \A i \in deletes : actions[i].name \in InventoryNames(b)
                   /\ n = d => (creates = {} /\ deletes = {})
           /\ \A b \in AllRoleHashes \ processed :
                ReconcileActions("create", b) = {} /\ ReconcileActions("delete", b) = {}
           /\ (pc = "done" /\ result = "Continue") => processed = Buckets(spec)

C6_Witness ==
    /\ pc = "done"
    /\ result = "Continue"
    /\ \E b \in processed :
          /\ InventoryCount(b) >= Desired(spec, b) + 2
          /\ Cardinality(ReconcileActions("delete", b)) = 1
    /\ \E b \in processed : Cardinality(ReconcileActions("create", b)) = 1

(* C7: the actions issued for a handled bucket (role, H2) are those the     *)
(* loop body yields for H2 under any other desired count of any other hash  *)
(* H1 of the same role, on the same inventory.                              *)
C7_HashIsolation ==
    node_information.some
        => \A b \in processed :
             \A h1 \in DOMAIN get_hashed_selectors(spec)[b[1]] \ {b[2]} :
               \A n \in 0..(MaxInstances + 1) :
                 LET other == [get_hashed_selectors(spec)[b[1]] EXCEPT ![h1] = n]
                     d == reconcile_bucket(NodesOf(node_information.val, b[1]), other, b[2])
                 IN /\ d.delete.some <=> ReconcileActions("delete", b) # {}
                    /\ d.delete.some =>
                         \A i \in ReconcileActions("delete", b) :
                            actions[i].name = d.delete.val.name
                    /\ d.create <=> ReconcileActions("create", b) # {}

C7_Witness ==
    /\ pc = "done"
    /\ result = "Continue"
    /\ <<"Master", "h1">> \in processed
    /\ <<"Master", "h2">> \in processed
    /\ ReconcileActions("create", <<"Master", "h1">>) # {}
    /\ InventoryCount(<<"Master", "h2">>) = 1
    /\ ReconcileActions("create", <<"Master", "h2">>) = {}
    /\ ReconcileActions("delete", <<"Master", "h2">>) = {}

(* places of the classified inventory that hold the unit *)
InventoryPlaces(pod) ==
    UNION { UNION { { <<nt, h, i>> :
                        i \in { j \in DOMAIN NodesOf(node_information.val, nt)[h] :
                                  NodesOf(node_information.val, nt)[h][j].name = pod.name } }
                    : h \in DOMAIN NodesOf(node_information.val, nt) }
            : nt \in SparkNodeType }

(* C10: once classification is over, every listed unit is in exactly one    *)
(* bucket of the inventory or has had a delete requested by the classifier, *)
(* and not both.                                                            *)
C10_ClassifiedOrDeleted ==
    node_information.some
        => \A i \in DOMAIN observed.val :
             LET pod == observed.val[i]
             IN (Cardinality(InventoryPlaces(pod)) = 1) # (pod.name \in ClassifyDeletes)

----------------------------------------------------------------------------
(* The prober *)

Succeeds(url) == url.conn /\ url.read /\ from_slice(url.body).ok

(* occurrences of a RUNNING record with this id in the active lists of the  *)
(* urls that answered and parsed                                            *)
RunningOccurrences(id) ==
    { <<i, j>> \in (1..Len(master_urls)) \X (1..MaxApps + 1) :
        /\ Succeeds(master_urls[i])
        /\ j \in DOMAIN master_urls[i].body.activeapps
        /\ master_urls[i].body.activeapps[j].id = id
        /\ master_urls[i].body.activeapps[j].state = "RUNNING" }

(* C8: the probe returns exactly the RUNNING applications of the active     *)
(* lists of the urls that connected, were read and parsed.                  *)
C8_ProbeResilience ==
    probe_pc = "done"
        => /\ probe_result.some /\ probe_result.val.ok
           /\ \A k \in DOMAIN probe_result.val.val :
                probe_result.val.val[k].state = "RUNNING"
           /\ \A id \in 1..(MaxApps + 9) :
                Cardinality({ k \in DOMAIN probe_result.val.val :
                                probe_result.val.val[k].id = id })
                    = Cardinality(RunningOccurrences(id))

C8_Witness ==
    /\ probe_pc = "done"
    /\ Len(master_urls) >= 2
    /\ \E i \in DOMAIN master_urls : ~Succeeds(master_urls[i])
    /\ \E i \in DOMAIN master_urls :
          /\ Succeeds(master_urls[i])
          /\ \E j \in DOMAIN master_urls[i].body.activeapps :
                master_urls[i].body.activeapps[j].state = "RUNNING"
          /\ master_urls[i].body.completedapps # <<>>
    /\ Len(probe_result.val.val) = 1

(* C9: the probe never returns an error, and when it returns, a GET has     *)
(* been issued for every url of the list, in list order.                    *)
C9_ProbeNeverFails ==
    /\ probe_result.some => probe_result.val.ok
    /\ probe_pc = "done" =>
          /\ probe_result.some
          /\ queried = [i \in 1..Len(master_urls) |-> i]

C9_Witness ==
    /\ probe_pc = "done"
    /\ Len(master_urls) >= 2
    /\ \A i \in DOMAIN master_urls : ~Succeeds(master_urls[i])
    /\ ~master_urls[1].conn
    /\ probe_result.val.ok

----------------------------------------------------------------------------
(* Ordering and error handling within a pass *)

(* C11: in the request log of a pass every delete of the classifier comes   *)
(* before every create or delete of the reconciler, the reconciler acts     *)
(* only on an inventory that has been handed over, and no unit the          *)
(* classifier requested deletion of is in that inventory.                   *)
C11_ClassifyBeforeReconcile ==
    /\ \A i, j \in DOMAIN actions :
          (actions[i].by = "classify" /\ actions[j].by = "reconcile") => i < j
    /\ (pc = "reconcile" \/ \E j \in DOMAIN actions : actions[j].by = "reconcile")
          => node_information.some
    /\ node_information.some
          => \A i \in DOMAIN observed.val :
                observed.val[i].name \in ClassifyDeletes
                    => InventoryPlaces(observed.val[i]) = {}

C11_Witness ==
    /\ pc = "done"
    /\ result = "Continue"
    /\ ClassifyDeletes # {}
    /\ \E j \in DOMAIN actions : actions[j].by = "reconcile" /\ actions[j].op = "delete"
    /\ \E j \in DOMAIN actions : actions[j].by = "reconcile" /\ actions[j].op = "create"

(* C12: when a delete requested by the classifier fails, the pass has ended *)
(* with an error, no inventory has been handed to the reconciler and the    *)
(* reconciler has issued no request.                                        *)
C12_FailedClassifyDeleteAborts ==
    \A i \in DOMAIN actions :
        (actions[i].by = "classify" /\ ~actions[i].ok)
            => /\ pc = "done"
               /\ result = "Err"
               /\ ~node_information.some
               /\ \A j \in DOMAIN actions : actions[j].by # "reconcile"

C12_Witness ==
    /\ pc = "done"
    /\ result = "Err"
    /\ \E i \in DOMAIN actions : actions[i].by = "classify" /\ ~actions[i].ok
    /\ master # EmptyMap
    /\ ~Converged(pods, spec)

(* a pass that has returned with every client call it made succeeding *)
AllCallsSucceeded ==
    /\ pc = "done"
    /\ observed.some
    /\ \A i \in DOMAIN actions : actions[i].ok

(* C13: a pass in which every client call succeeds ends with Continue; a    *)
(* failed create or delete of the reconciler ends the pass with an error    *)
(* and is the last request of the pass.                                     *)
C13_ContinueOrError ==
    /\ AllCallsSucceeded => result = "Continue"
    /\ \A i \in DOMAIN actions :
          (actions[i].by = "reconcile" /\ ~actions[i].ok)
              => (pc = "done" /\ result = "Err" /\ i = Len(actions))

(* C14: with no HistoryServer entry in the desired topology, a pass whose   *)
(* client calls succeed ends with Continue, issues no request for the       *)
(* HistoryServer role and handles every Master and Worker bucket.           *)
C14_AbsentRoleSkipped ==
    (AllCallsSucceeded /\ ~spec.history_server.some)
        => /\ result = "Continue"
           /\ \A i \in DOMAIN actions :
                 actions[i].by = "reconcile" => actions[i].node_type # "HistoryServer"
           /\ processed = Buckets(spec)

(* the fixed priority of the roles *)
Priority(node_type) ==
    CASE node_type = "Master" -> 1
      [] node_type = "Worker" -> 2
      [] node_type = "HistoryServer" -> 3

(* positions of the request log holding a request of the reconciler *)
ReconcileRequests == { i \in DOMAIN actions : actions[i].by = "reconcile" }

(* C15: in the request log of a pass the reconciler's requests for Master   *)
(* buckets come before those for Worker buckets, and those before the ones  *)
(* for HistoryServer buckets; after a failed request of the reconciler no   *)
(* bucket of a later role has been handled or has a request.                *)
C15_RolePriorityOrder ==
    /\ \A i, j \in ReconcileRequests :
          i < j => Priority(actions[i].node_type) <= Priority(actions[j].node_type)
    /\ \A i \in ReconcileRequests :
          ~actions[i].ok
              => /\ \A j \in ReconcileRequests :
                       Priority(actions[j].node_type) <= Priority(actions[i].node_type)
                 /\ \A b \in processed : Priority(b[1]) <= Priority(actions[i].node_type)

C15_Witness ==
    /\ pc = "done"
    /\ result = "Err"
    /\ \E i, j \in ReconcileRequests :
          /\ actions[i].node_type = "Master" /\ actions[i].ok
          /\ actions[j].node_type = "Worker" /\ ~actions[j].ok
    /\ spec.history_server.some
    /\ Count(pods, "HistoryServer", "h1") < Desired(spec, <<"HistoryServer", "h1">>)

----------------------------------------------------------------------------
(* A pass as a function of its inputs *)

NoInventory == [nt \in SparkNodeType |-> EmptyMap]

(* the classification of a listed unit sequence, popped from its end:       *)
(* the maps built and the unit a delete is requested for, if any            *)
RECURSIVE ClassifyAll(_, _, _)
ClassifyAll(list, hashed_selectors, inv) ==
    IF list = <<>>
    THEN [inv |-> inv, deleted |-> {}]
    ELSE LET pod == Last(list)
             verdict == classify(pod, hashed_selectors)
         IN IF verdict = "delete"
            THEN [inv |-> inv, deleted |-> {pod.name}]
            ELSE IF verdict = "skip"
                 THEN ClassifyAll(Front(list), hashed_selectors, inv)
                 ELSE ClassifyAll(Front(list), hashed_selectors,
                                  [inv EXCEPT ![verdict] =
                                      sort_pod_info(pod, @, pod.labels.val[HASH])])

(* whether a pass on topology s gets as far as reconcile_cluster *)
ReachesReconcile(s) == ~(info_enabled /\ ~s.history_server.some)

(* the delete targets and the (role, hash) creates of a pass on topology s  *)
(* and listed units list, every client call succeeding                      *)
ExpectedDeletes(s, list) ==
    LET c == ClassifyAll(list, get_hashed_selectors(s), NoInventory)
    IN c.deleted \cup
       (IF ReachesReconcile(s)
        THEN { reconcile_bucket(c.inv[b[1]], get_hashed_selectors(s)[b[1]], b[2]).delete.val.name :
                 b \in { x \in Buckets(s) :
                           reconcile_bucket(c.inv[x[1]], get_hashed_selectors(s)[x[1]],
                                            x[2]).delete.some } }
        ELSE {})

ExpectedCreates(s, list) ==
    LET c == ClassifyAll(list, get_hashed_selectors(s), NoInventory)
    IN IF ReachesReconcile(s)
       THEN { b \in Buckets(s) :
                reconcile_bucket(c.inv[b[1]], get_hashed_selectors(s)[b[1]], b[2]).create }
       ELSE {}

(* C16: the delete targets and the (role, hash) creates of a pass whose     *)
(* client calls all succeed are a function of the desired topology and the  *)
(* listed units alone, whatever passes ran before in the run; a new pass    *)
(* starts without an inventory.                                            *)
C16_PassDeterminedByInputs ==
    /\ AllCallsSucceeded
          => /\ { actions[i].name : i \in { j \in DOMAIN actions : actions[j].op = "delete" } }
                    = ExpectedDeletes(spec, observed.val)
             /\ \A b \in AllRoleHashes :
                   Cardinality(ReconcileActions("create", b))
                       = IF b \in ExpectedCreates(spec, observed.val) THEN 1 ELSE 0
    /\ pc = "start" => ~node_information.some

C16_Witness ==
    /\ AllCallsSucceeded
    /\ result = "Continue"
    /\ passes >= 1
    /\ observed.val # initial_pods
    /\ ClassifyDeletes # {}
    /\ \E b \in AllRoleHashes : ReconcileActions("create", b) # {}

----------------------------------------------------------------------------
(* Two interleaved passes *)

(* the requests of a pass p, running or suspended *)
PassDeletes(p) ==
    { p.actions[i].name : i \in { j \in DOMAIN p.actions : p.actions[j].op = "delete" } }

PassCreates(p, b) ==
    { i \in DOMAIN p.actions :
        /\ p.actions[i].op = "create"
        /\ p.actions[i].node_type = b[1]
        /\ p.actions[i].hash = b[2] }

(* the units held in the inventory of a pass *)
PassInventoryUnits(p) ==
    UNION { UNION { { NodesOf(p.node_information.val, nt)[h][i] :
                        i \in DOMAIN NodesOf(p.node_information.val, nt)[h] }
                    : h \in DOMAIN NodesOf(p.node_information.val, nt) }
            : nt \in SparkNodeType }

(* p has issued what it issues when it runs alone on its own inputs, and    *)
(* its inventory holds only units it listed itself                         *)
RunsAsAlone(p) ==
    /\ (p.pc = "done" /\ p.observed.some /\ \A i \in DOMAIN p.actions : p.actions[i].ok)
          => /\ PassDeletes(p) = ExpectedDeletes(p.spec, p.observed.val)
             /\ \A b \in AllRoleHashes :
                   Cardinality(PassCreates(p, b))
                       = IF b \in ExpectedCreates(p.spec, p.observed.val) THEN 1 ELSE 0
    /\ p.node_information.some
          => /\ p.observed.some
             /\ PassInventoryUnits(p) \subseteq
                    { p.observed.val[i] : i \in DOMAIN p.observed.val }

(* C17: of two passes for two cluster resources with disjoint units,        *)
(* interleaved at their suspension points, each issues the requests it      *)
(* issues alone, each inventory holds only the pass's own units and each    *)
(* pass keeps its own desired topology.                                     *)
C17_ConcurrentPassIsolation ==
    suspended.some
        => /\ RunsAsAlone(CurrentPass)
           /\ RunsAsAlone(suspended.val)
           /\ {spec, suspended.val.spec} = {PairSpecA, PairSpecB}

C17_Witness ==
    /\ suspended.some
    /\ pc = "reconcile"
    /\ actions # <<>>
    /\ suspended.val.pc = "done"
    /\ suspended.val.result = "Continue"
    /\ suspended.val.passes = 0
    /\ passes = 0
    /\ \E i \in DOMAIN suspended.val.actions : suspended.val.actions[i].op = "create"
    /\ \E i \in DOMAIN suspended.val.actions : suspended.val.actions[i].op = "delete"
    /\ suspended.val.node_information # node_information

----------------------------------------------------------------------------
(* The classifier's early exit *)

(* positions of the request log holding a delete of the classifier *)
ClassifyRequests == { i \in DOMAIN actions : actions[i].by = "classify" }

(* C18: the classifier requests at most one deletion in a pass; once that   *)
(* delete has succeeded the loop is over, the listed units not yet popped   *)
(* are in no bucket of the inventory and have no delete of the classifier,  *)
(* and the pass goes on to reconcile every bucket of D with the inventory   *)
(* built so far.                                                            *)
C18_EarlyExit ==
    /\ Cardinality(ClassifyRequests) <= 1
    /\ \A i \in ClassifyRequests :
          actions[i].ok
              => /\ pc # "classify"
                 /\ \A k \in DOMAIN existing_pods :
                       /\ existing_pods[k].name \notin ClassifyDeletes
                       /\ node_information.some => InventoryPlaces(existing_pods[k]) = {}
                 /\ node_information.some
                       => node_information.val =
                            [master |-> master, worker |-> worker,
                             history_server |-> Some(history_server)]
                 /\ AllCallsSucceeded
                       => (result = "Continue" /\ processed = Buckets(spec))

----------------------------------------------------------------------------
(* Scale-up and deletion safety *)

(* C19: the reconciler requests a create for a bucket only when the list    *)
(* fetched at the start of the pass holds fewer units of the bucket than    *)
(* desired, and the number of units of a bucket never exceeds the larger    *)
(* of its initial and its desired count.                                    *)
C19_NoScaleUpOvershoot ==
    /\ \A b \in AllRoleHashes :
          ReconcileActions("create", b) # {}
              => (b \in Buckets(spec)
                  /\ Count(observed.val, b[1], b[2]) < Desired(spec, b))
    /\ \A b \in Buckets(spec) :
          Count(pods, b[1], b[2])
              <= Max(Count(initial_pods, b[1], b[2]), Desired(spec, b))

(* the listed units a delete was requested for in this pass *)
DeletedUnits ==
    { observed.val[k] : k \in { n \in DOMAIN observed.val :
        \E i \in DOMAIN actions :
            actions[i].op = "delete" /\ actions[i].name = observed.val[n].name } }

(* C20: every delete of a pass targets a listed unit that either fails      *)
(* validation or belongs to a bucket of D whose count in the fetched list   *)
(* exceeds the desired count.                                               *)
C20_NoHealthyUnitDeleted ==
    /\ \A i \in DOMAIN actions :
          actions[i].op = "delete" => actions[i].name \in Names(observed.val)
    /\ observed.some
          => \A pod \in DeletedUnits :
                \/ ~ValidlyLabelled(pod, spec)
                \/ \E b \in Buckets(spec) :
                      /\ HasLabels(pod, b[1], b[2])
                      /\ Count(observed.val, b[1], b[2]) > Desired(spec, b)

C20_Witness ==
    /\ pc = "done"
    /\ result = "Continue"
    /\ \E pod \in DeletedUnits : ~ValidlyLabelled(pod, spec)
    /\ \E k \in DOMAIN observed.val :
          /\ InventoryPlaces(observed.val[k]) # {}
          /\ observed.val[k] \notin DeletedUnits
          /\ \E i \in DOMAIN pods : pods[i] = observed.val[k]

----------------------------------------------------------------------------
(* Scale-down with deletions in progress *)

(* units of a bucket in a unit list that carry no deletion timestamp *)
NonMarked(ps, b) ==
    Cardinality({ i \in DOMAIN ps :
                    HasLabels(ps[i], b[1], b[2]) /\ ~has_deletion_stamp(ps[i]) })

----------------------------------------------------------------------------
(* Labels of created units *)

(* listed units that are not among the initial ones: the reconciler made them *)
CreatedListed ==
    { observed.val[k] : k \in { n \in DOMAIN observed.val :
                                  observed.val[n].name \notin Names(initial_pods) } }

----------------------------------------------------------------------------
(* The prober: whole payloads, order, duplicates *)

(* a payload with every required field and only the four known states *)
WellFormed(body) ==
    /\ body.complete
    /\ \A i \in DOMAIN body.activeapps :
          body.activeapps[i].state \in {"FAILED", "FINISHED", "RUNNING", "WAITING"}
    /\ \A i \in DOMAIN body.completedapps :
          body.completedapps[i].state \in {"FAILED", "FINISHED", "RUNNING", "WAITING"}

(* an endpoint that answered with a payload that does not parse *)
Rejected(url) == url.conn /\ url.read /\ ~WellFormed(url.body)

(* request_states and get_running_applications as a function of the list *)
RECURSIVE StatesOf(_)
StatesOf(urls) ==
    IF urls = <<>>
    THEN <<>>
    ELSE LET url == Head(urls)
             parsed == from_slice(url.body)
         IN (IF url.conn /\ url.read /\ parsed.ok THEN <<parsed.state>> ELSE <<>>)
            \o StatesOf(Tail(urls))

ProbeOf(urls) == collect_running(StatesOf(urls))

(* C23: an endpoint whose payload does not parse contributes nothing: the   *)
(* probe returns what it returns for the list without the rejected          *)
(* endpoints, and no state of a rejected endpoint is collected.             *)
C23_PayloadWholeOrNothing ==
    /\ Len(master_states)
          <= Cardinality({ i \in 1..(url_idx - 1) : i \in DOMAIN master_urls
                                                     /\ ~Rejected(master_urls[i]) })
    /\ probe_pc = "done"
          => /\ probe_result.some /\ probe_result.val.ok
             /\ probe_result.val.val
                  = ProbeOf(SelectSeq(master_urls, LAMBDA u : ~Rejected(u)))

C23_Witness ==
    /\ probe_pc = "done"
    /\ \E i \in DOMAIN master_urls :
          /\ Rejected(master_urls[i])
          /\ master_urls[i].body.complete
          /\ \E j \in DOMAIN master_urls[i].body.activeapps :
                master_urls[i].body.activeapps[j].state = "RUNNING"
    /\ \E i \in DOMAIN master_urls : Succeeds(master_urls[i])
    /\ Len(probe_result.val.val) = 2

(* the RUNNING active applications of the endpoints that answer with a      *)
(* well-formed payload, endpoint after endpoint, in payload order           *)
RECURSIVE ExpectedRunning(_)
ExpectedRunning(urls) ==
    IF urls = <<>>
    THEN <<>>
    ELSE LET url == Head(urls)
         IN (IF url.conn /\ url.read /\ WellFormed(url.body)
             THEN SelectSeq(url.body.activeapps, LAMBDA a : a.state = "RUNNING")
             ELSE <<>>) \o ExpectedRunning(Tail(urls))

(* C24: the endpoints are queried one after another in list order, and the  *)
(* probe returns the concatenation, in that order, of the RUNNING active    *)
(* applications of each successful endpoint in payload order, duplicates    *)
(* included.                                                                *)
C24_ProbeOrderNoDedup ==
    /\ queried = [i \in 1..Len(queried) |-> i]
    /\ probe_pc = "done"
          => /\ probe_result.some /\ probe_result.val.ok
             /\ Len(queried) = Len(master_urls)
             /\ probe_result.val.val = ExpectedRunning(master_urls)

C24_Witness ==
    /\ probe_pc = "done"
    /\ Len(master_urls) >= 2
    /\ master_urls[1] = master_urls[2]
    /\ Succeeds(master_urls[1])
    /\ Len(probe_result.val.val) = 4
    /\ probe_result.val.val[1].id # probe_result.val.val[2].id
    /\ probe_result.val.val[1] = probe_result.val.val[3]

====
